---------------------------- MODULE Spec2Model ----------------------------
(***************************************************************************)
(* MAX30003 HAL driver (max30003.c, max30003_example.c).                   *)
(*                                                                         *)
(* The driver is a set of blocking C functions over a device handle.  One  *)
(* action is one call of one driver function, from entry to return; the    *)
(* bus traffic and the stores through output pointers that the call makes  *)
(* are recorded, in program order, in the history variable log.  The HAL   *)
(* (HAL_SPI_TransmitReceive, HAL_SPI_Transmit) is the environment: what    *)
(* each exchange returns is drawn from the sets below.                     *)
(*                                                                         *)
(* uint32_t values are modelled as naturals below 2^31 (the range of the   *)
(* model checker's integers); uint8_t arithmetic is reduced modulo 256.    *)
(***************************************************************************)
EXTENDS Integers, Sequences, FiniteSets, TLC

VARIABLES
    hmax,        \* MAX30003_HandleTypeDef: hspi, cs_port, cs_pin
    gpio,        \* output level of every chip-select candidate pin
    pc,          \* caller position: "idle", "returned", "fault"
    op,          \* the driver function of the current/last call
    args,        \* its arguments and the prior content of its out-parameters
    log,         \* GPIO writes, SPI transfers and stores of the call, in order
    ret,         \* HAL_StatusTypeDef returned ("void" for a void function)
    data,        \* *data / *enabled_active after the call
    fifo_data    \* fifo_data[0..count-1] after the call (1-based here)

vars == <<hmax, gpio, pc, op, args, log, ret, data, fifo_data>>

----------------------------------------------------------------------------
(* Bounds of the model *)

\* largest count passed to MAX30003_ReadFIFO by a direct caller
MaxCount == 34

\* driver calls of the main line and passes of the interrupt handler in a
\* run of the statement-level specification
MaxCalls == 2
MaxPasses == 1

----------------------------------------------------------------------------
(* Program constants (max30003.h) *)

MAX30003_FIFO_LENGTH == 32
MAX30003_REG_STATUS == 1
MAX30003_REG_EN_INT == 2
MAX30003_REG_FIFO_RST == 10
MAX30003_FIFO_RST_D == 0
MAX30003_FIFO_CMD_ECG_BURST == 32
MAX30003_FIFO_CMD_ECG == 33
MAX30003_FIFO_ETAG_VALID == 0
MAX30003_FIFO_ETAG_FAST == 1
MAX30003_FIFO_ETAG_VALID_EOF == 2
MAX30003_FIFO_ETAG_FAST_EOF == 3
MAX30003_FIFO_ETAG_EMPTY == 6
MAX30003_FIFO_ETAG_OVERFLOW == 7
MAX30003_ETAG_MASK == 7
MAX30003_ETAG_SHIFT == 3
MAX30003_ECG_VOLTAGE_DATA_MASK == 262143
MAX30003_ECG_VOLTAGE_DATA_SHIFT == 6
MAX30003_INT_EINT == 2^23
MAX30003_INT_EOVF == 2^22
MAX30003_INT_FSTINT == 2^21
MAX30003_INT_DCLOFFINT == 2^20
MAX30003_INT_LONINT == 2^11
MAX30003_INT_RRINT == 2^10
MAX30003_INT_SAMP == 2^9
MAX30003_INT_PLLINT == 2^8

\* HAL_StatusTypeDef and GPIO_PinState of the STM32 HAL
HAL_OK == "HAL_OK"
HAL_ERROR == "HAL_ERROR"
HAL_BUSY == "HAL_BUSY"
HAL_TIMEOUT == "HAL_TIMEOUT"
HAL_StatusTypeDef == {HAL_OK, HAL_ERROR, HAL_BUSY, HAL_TIMEOUT}
HAL_Failures == HAL_StatusTypeDef \ {HAL_OK}
GPIO_PIN_SET == "GPIO_PIN_SET"
GPIO_PIN_RESET == "GPIO_PIN_RESET"
NULL == "NULL"

----------------------------------------------------------------------------
(* C integer operators *)

RECURSIVE BitAnd(_, _)
BitAnd(a, b) ==
    IF a = 0 \/ b = 0 THEN 0
    ELSE IF a % 256 = 0 \/ b % 256 = 0
    THEN 256 * BitAnd(a \div 256, b \div 256)
    ELSE (a % 2) * (b % 2) + 2 * BitAnd(a \div 2, b \div 2)

BitOr(a, b) == a + b - BitAnd(a, b)

ShiftR(a, n) == a \div (2^n)

\* wrong: no reduction to 8 bits
U8_Mut(x) == x

U8(x) == x % 256

\* Op applied to the value of v (v is evaluated once)
Bind(v, Op(_)) == CHOOSE y \in {Op(t) : t \in {v}} : TRUE

----------------------------------------------------------------------------
(* History events *)

GpioEv(port, pin, level) ==
    [ev |-> "gpio", port |-> port, pin |-> pin, level |-> level,
     dir |-> "-", tx |-> <<>>, size |-> 0, st |-> "-", idx |-> 0, val |-> 0]

SpiEv(dir, tx, size, st) ==
    [ev |-> "spi", port |-> "-", pin |-> 0, level |-> "-",
     dir |-> dir, tx |-> tx, size |-> size, st |-> st, idx |-> 0, val |-> 0]

\* a store through the out-pointer dst (at index idx for fifo_data)
StoreEv(dst, idx, val) ==
    [ev |-> "store", port |-> "-", pin |-> 0, level |-> "-",
     dir |-> dst, tx |-> <<>>, size |-> 0, st |-> "-", idx |-> idx, val |-> val]

----------------------------------------------------------------------------
(* The HAL as environment.  An exchange returns a status; a successful     *)
(* full-duplex exchange fills all 4 bytes of the receive buffer, a failed  *)
(* one the first n bytes only (n < 4).                                     *)

\* receive buffer after HAL_SPI_TransmitReceive answered r
RxAfter(rx_old, r) ==
    [j \in 1..4 |-> IF j <= r.n THEN r.rx[j] ELSE rx_old[j]]

\* the 4 bytes a device shifts out for a 24-bit word w after first byte b0
Bytes(b0, w) == <<b0, (w \div 65536) % 256, (w \div 256) % 256, w % 256>>

\* the i-th FIFO word of a device whose FIFO holds pattern pat
DevWord(pat, i) ==
    IF pat = 1 THEN (i * 66051) % 16777216
    ELSE 16777215 - ((i * 66051) % 16777216)

\* An environment env scripts the exchanges of one call: the exchanges whose
\* (1-based) number is in env.fails return env.fst after env.fn bytes, all
\* others succeed; the first Len(env.head) exchanges answer the bytes of
\* env.head, later ones the FIFO words of pattern env.pat.
RxOf(env, i) ==
    IF i <= Len(env.head) THEN env.head[i]
    ELSE Bytes(IF env.pat = 1 THEN 0 ELSE 255, DevWord(env.pat, i))

Resp(env, i) ==
    IF i \in env.fails
    THEN [st |-> env.fst, n |-> env.fn, rx |-> RxOf(env, i)]
    ELSE [st |-> HAL_OK, n |-> 4, rx |-> RxOf(env, i)]

----------------------------------------------------------------------------
(* max30003.c *)

\* wrong: the tag field is masked in place and not shifted down
ExtractETag_Mut(word) ==
    U8(BitAnd(word, MAX30003_ETAG_MASK * 2^MAX30003_ETAG_SHIFT))

\* (fifo_data >> MAX30003_ETAG_SHIFT) & MAX30003_ETAG_MASK, as uint8_t
MAX30003_ExtractETag(word) ==
    U8(BitAnd(ShiftR(word, MAX30003_ETAG_SHIFT), MAX30003_ETAG_MASK))

\* wrong: a 16-bit mask, the two top bits of the sample are lost
ExtractECGData_Mut(word) ==
    BitAnd(ShiftR(word, MAX30003_ECG_VOLTAGE_DATA_SHIFT), 65535)

\* (fifo_data >> MAX30003_ECG_VOLTAGE_DATA_SHIFT) & MAX30003_ECG_VOLTAGE_DATA_MASK
MAX30003_ExtractECGData(word) ==
    BitAnd(ShiftR(word, MAX30003_ECG_VOLTAGE_DATA_SHIFT),
           MAX30003_ECG_VOLTAGE_DATA_MASK)

\* wrong: chip-select is left asserted when the exchange fails
SPI_TransmitReceive_Mut(h, tx_data, rx_data, size, r) ==
    [log    |-> <<GpioEv(h.cs_port, h.cs_pin, GPIO_PIN_RESET),
                  SpiEv("txrx", tx_data, size, r.st)>>
                \o (IF r.st = HAL_OK
                    THEN <<GpioEv(h.cs_port, h.cs_pin, GPIO_PIN_SET)>>
                    ELSE <<>>),
     rx     |-> RxAfter(rx_data, r),
     status |-> r.st]

MAX30003_SPI_TransmitReceive(h, tx_data, rx_data, size, r) ==
    [log    |-> <<GpioEv(h.cs_port, h.cs_pin, GPIO_PIN_RESET),
                  SpiEv("txrx", tx_data, size, r.st),
                  GpioEv(h.cs_port, h.cs_pin, GPIO_PIN_SET)>>,
     rx     |-> RxAfter(rx_data, r),
     status |-> r.st]

\* wrong: the word is taken from rx_buf[0], rx_buf[1], rx_buf[2]
RxWord_Mut(rx_buf) ==
    BitOr(BitOr(rx_buf[1] * 65536, rx_buf[2] * 256), rx_buf[3])

\* ((uint32_t)rx_buf[1] << 16) | ((uint32_t)rx_buf[2] << 8) | rx_buf[3]
\* (C index 1..3 is index 2..4 here)
RxWord(rx_buf) ==
    BitOr(BitOr(rx_buf[2] * 65536, rx_buf[3] * 256), rx_buf[4])

\* wrong: the read bit is not set in the command byte
ReadRegTx_Mut(reg) == <<U8(reg * 2), 0, 0, 0>>

\* uint8_t tx_buf[4] = { (reg << 1) | 0x01 } (line 103)
ReadRegTx(reg) == <<U8(BitOr(reg * 2, 1)), 0, 0, 0>>

\* wrong: the word in rx_buf is stored whatever the status
ReadReg_Mut(h, reg, data_old, r) ==
    Bind(MAX30003_SPI_TransmitReceive(h, ReadRegTx(reg), <<0, 0, 0, 0>>, 4, r),
         LAMBDA x :
           [log    |-> x.log \o <<StoreEv("data", 0, RxWord(x.rx))>>,
            status |-> x.status,
            data   |-> RxWord(x.rx)])

\* data_old = content of *data before the call
MAX30003_ReadReg(h, reg, data_old, r) ==
    Bind(MAX30003_SPI_TransmitReceive(h, ReadRegTx(reg), <<0, 0, 0, 0>>, 4, r),
         LAMBDA x :
           [log    |-> IF x.status = HAL_OK
                       THEN x.log \o <<StoreEv("data", 0, RxWord(x.rx))>>
                       ELSE x.log,
            status |-> x.status,
            data   |-> IF x.status = HAL_OK THEN RxWord(x.rx) ELSE data_old])

\* wrong: the payload starts one byte too high (data >> 24, >> 16, >> 8)
WriteRegTx_Mut(reg, value) ==
    <<U8(BitAnd(reg * 2, 254)),
      U8(BitAnd(ShiftR(value, 24), 255)),
      U8(BitAnd(ShiftR(value, 16), 255)),
      U8(BitAnd(ShiftR(value, 8), 255))>>

\* uint8_t tx_buf[4] = { (reg << 1) & 0xFE, (data >> 16) & 0xFF,
\*                       (data >> 8) & 0xFF, data & 0xFF } (lines 126-131)
WriteRegTx(reg, value) ==
    <<U8(BitAnd(reg * 2, 254)),
      U8(BitAnd(ShiftR(value, 16), 255)),
      U8(BitAnd(ShiftR(value, 8), 255)),
      U8(BitAnd(value, 255))>>

\* wrong: every failure of the transfer is reported as HAL_ERROR
WriteReg_Mut(h, reg, value, st) ==
    [log    |-> <<GpioEv(h.cs_port, h.cs_pin, GPIO_PIN_RESET),
                  SpiEv("tx", WriteRegTx(reg, value), 4, st),
                  GpioEv(h.cs_port, h.cs_pin, GPIO_PIN_SET)>>,
     status |-> IF st = HAL_OK THEN HAL_OK ELSE HAL_ERROR]

\* st = what HAL_SPI_Transmit returns
MAX30003_WriteReg(h, reg, value, st) ==
    [log    |-> <<GpioEv(h.cs_port, h.cs_pin, GPIO_PIN_RESET),
                  SpiEv("tx", WriteRegTx(reg, value), 4, st),
                  GpioEv(h.cs_port, h.cs_pin, GPIO_PIN_SET)>>,
     status |-> st]

\* tx_buf[0] of the first exchange (line 153)
ReadFIFOCmd(count) ==
    U8(BitOr((IF count > 1 THEN MAX30003_FIFO_CMD_ECG_BURST
                           ELSE MAX30003_FIFO_CMD_ECG) * 2, 1))

\* wrong: the loop goes on after a failed exchange
ReadFIFOCond_Mut(i, count, status) == i < count

\* the loop condition (line 155)
ReadFIFOCond(i, count, status) == i < count /\ status = HAL_OK

\* wrong: the word goes to the slot after the one of its exchange
ReadFIFOStore_Mut(buf, mem, i, w) ==
    IF buf.null \/ i + 1 >= Len(mem) THEN mem ELSE [mem EXCEPT ![i + 2] = w]

\* the store fifo_data[i] = ... (lines 157-159): the buffer after it.  A
\* store through a null fifo_data reaches no buffer.
ReadFIFOStore(buf, mem, i, w) ==
    IF buf.null \/ i >= Len(mem) THEN mem ELSE [mem EXCEPT ![i + 1] = w]

\* wrong: the FIFO command is repeated in every exchange
ReadFIFONextTx_Mut(tx_buf, i) == tx_buf

\* tx_buf after "if (i == 0) tx_buf[0] = 0x00" (line 160)
ReadFIFONextTx(tx_buf, i) ==
    IF i = 0 THEN [tx_buf EXCEPT ![1] = 0] ELSE tx_buf

\* One iteration of the loop (lines 156-160) and its ++i.  s holds the
\* locals, the history so far and the number n of exchanges made.  The store
\* through a null fifo_data is undefined: it either traps (s.fault, nothing
\* after it executes) or has no effect the driver can see.
ReadFIFOBody(h, buf, env, k0, s) ==
    Bind(MAX30003_SPI_TransmitReceive(h, s.tx_buf, s.rx_buf, 4,
                                      Resp(env, k0 + s.n + 1)),
         LAMBDA x :
           [tx_buf |-> IF buf.null /\ env.nullstore = "trap" THEN s.tx_buf
                       ELSE ReadFIFONextTx(s.tx_buf, s.i),
            rx_buf |-> x.rx,
            status |-> x.status,
            log    |-> s.log \o x.log
                       \o <<StoreEv(IF buf.null THEN NULL ELSE "fifo_data",
                                    s.i, RxWord(x.rx))>>,
            mem    |-> ReadFIFOStore(buf, s.mem, s.i, RxWord(x.rx)),
            fault  |-> buf.null /\ env.nullstore = "trap",
            i      |-> IF buf.null /\ env.nullstore = "trap" THEN s.i
                       ELSE U8(s.i + 1),
            n      |-> s.n + 1])

\* at most n iterations of the loop (lines 155-161) from the locals s
RECURSIVE ReadFIFOSteps(_, _, _, _, _, _, _)
ReadFIFOSteps(h, buf, count, env, k0, s, n) ==
    IF n > 0 /\ ReadFIFOCond(s.i, count, s.status) /\ ~s.fault
    THEN Bind(ReadFIFOBody(h, buf, env, k0, s),
              LAMBDA t : ReadFIFOSteps(h, buf, count, env, k0, t, n - 1))
    ELSE s

\* the loop, run sixteen iterations at a time so that its evaluation stays
\* shallow for the largest counts
RECURSIVE ReadFIFOLoop(_, _, _, _, _, _)
ReadFIFOLoop(h, buf, count, env, k0, s) ==
    IF ReadFIFOCond(s.i, count, s.status) /\ ~s.fault
    THEN Bind(ReadFIFOSteps(h, buf, count, env, k0, s, 16),
              LAMBDA t : ReadFIFOLoop(h, buf, count, env, k0, t))
    ELSE s

\* wrong: the loop body runs once before the condition is tested
ReadFIFO_Mut(h, buf, count, env, k0) ==
    Bind(ReadFIFOLoop(h, buf, count, env, k0,
                      ReadFIFOBody(h, buf, env, k0,
                                   [tx_buf |-> <<ReadFIFOCmd(count), 0, 0, 0>>,
                                    rx_buf |-> <<0, 0, 0, 0>>,
                                    status |-> HAL_OK,
                                    log    |-> <<>>,
                                    mem    |-> buf.mem,
                                    fault  |-> FALSE,
                                    i      |-> 0,
                                    n      |-> 0])),
         LAMBDA s : [log |-> s.log, status |-> s.status, mem |-> s.mem,
                     fault |-> s.fault, n |-> s.n])

\* buf = [null, mem]: the fifo_data pointer and the buffer behind it;
\* k0 = number of exchanges the enclosing call made before
MAX30003_ReadFIFO(h, buf, count, env, k0) ==
    Bind(ReadFIFOLoop(h, buf, count, env, k0,
                      [tx_buf |-> <<ReadFIFOCmd(count), 0, 0, 0>>,
                       rx_buf |-> <<0, 0, 0, 0>>,
                       status |-> HAL_OK,
                       log    |-> <<>>,
                       mem    |-> buf.mem,
                       fault  |-> FALSE,
                       i      |-> 0,
                       n      |-> 0]),
         LAMBDA s : [log |-> s.log, status |-> s.status, mem |-> s.mem,
                     fault |-> s.fault, n |-> s.n])

\* wrong: the 0xF00F00 mask is left out
EnabledActive_Mut(raw_status, en_int_reg) == BitAnd(raw_status, en_int_reg)

\* raw_status & en_int_reg & 0xF00F00 (line 185)
EnabledActive(raw_status, en_int_reg) ==
    BitAnd(BitAnd(raw_status, en_int_reg), 15732480)

\* wrong: the EN_INT read is made also after a failed STATUS read
GetInterruptStatus_Mut(h, ea_old, env, k0) ==
    Bind(MAX30003_ReadReg(h, MAX30003_REG_STATUS, 0, Resp(env, k0 + 1)),
         LAMBDA r1 :
           Bind(MAX30003_ReadReg(h, MAX30003_REG_EN_INT, 0, Resp(env, k0 + 2)),
                LAMBDA r2 :
                  IF r1.status # HAL_OK \/ r2.status # HAL_OK
                  THEN [log |-> r1.log \o r2.log,
                        status |-> IF r1.status # HAL_OK THEN r1.status
                                   ELSE r2.status,
                        enabled_active |-> ea_old, n |-> 2]
                  ELSE [log |-> r1.log \o r2.log
                                \o <<StoreEv("enabled_active", 0,
                                             EnabledActive(r1.data, r2.data))>>,
                        status |-> HAL_OK,
                        enabled_active |-> EnabledActive(r1.data, r2.data),
                        n |-> 2]))

\* ea_old = content of *enabled_active before the call
MAX30003_GetInterruptStatus(h, ea_old, env, k0) ==
    Bind(MAX30003_ReadReg(h, MAX30003_REG_STATUS, 0, Resp(env, k0 + 1)),
         LAMBDA r1 :
           IF r1.status # HAL_OK
           THEN [log |-> r1.log, status |-> r1.status,
                 enabled_active |-> ea_old, n |-> 1]
           ELSE Bind(MAX30003_ReadReg(h, MAX30003_REG_EN_INT, 0,
                                      Resp(env, k0 + 2)),
                     LAMBDA r2 :
                       IF r2.status # HAL_OK
                       THEN [log |-> r1.log \o r2.log, status |-> r2.status,
                             enabled_active |-> ea_old, n |-> 2]
                       ELSE [log |-> r1.log \o r2.log
                                     \o <<StoreEv("enabled_active", 0,
                                                  EnabledActive(r1.data, r2.data))>>,
                             status |-> HAL_OK,
                             enabled_active |-> EnabledActive(r1.data, r2.data),
                             n |-> 2]))

----------------------------------------------------------------------------
(* max30003_example.c *)

\* wrong: the switch looks at the two low bits of the tag only
HandleETag_Mut(etag, ecg_sample) ==
    CASE etag % 4 = MAX30003_FIFO_ETAG_VALID     -> "case VALID"
      [] etag % 4 = MAX30003_FIFO_ETAG_FAST      -> "case FAST"
      [] etag % 4 = MAX30003_FIFO_ETAG_VALID_EOF -> "case VALID_EOF"
      [] OTHER                                   -> "default"

\* The switch of MAX30003_HandleETag (lines 71-87): the label of the branch
\* taken.  The branches are empty, the function has no other effect.
MAX30003_HandleETag(etag, ecg_sample) ==
    CASE etag = MAX30003_FIFO_ETAG_VALID     -> "case VALID"
      [] etag = MAX30003_FIFO_ETAG_FAST      -> "case FAST"
      [] etag = MAX30003_FIFO_ETAG_VALID_EOF -> "case VALID_EOF"
      [] etag = MAX30003_FIFO_ETAG_OVERFLOW  -> "case OVERFLOW"
      [] OTHER                               -> "default"

NoCall == [log |-> <<>>, status |-> HAL_OK, fault |-> FALSE, n |-> 0]

\* wrong: the drain asks for one sample more than the FIFO holds
IrqDrain_Mut(h, ea, env, k0) ==
    IF BitAnd(ea, MAX30003_INT_EINT) # 0
    THEN MAX30003_ReadFIFO(h, [null |-> TRUE, mem |-> <<>>],
                           MAX30003_FIFO_LENGTH + 1, env, k0)
    ELSE NoCall

\* line 46: the threshold drain, taken when EINT is set in ea
IrqDrain(h, ea, env, k0) ==
    IF BitAnd(ea, MAX30003_INT_EINT) # 0
    THEN MAX30003_ReadFIFO(h, [null |-> TRUE, mem |-> <<>>],
                           MAX30003_FIFO_LENGTH, env, k0)
    ELSE NoCall

\* line 47: the FIFO reset, taken when EOVF is set in ea
IrqReset(h, ea, env, k0) ==
    IF BitAnd(ea, MAX30003_INT_EOVF) # 0
    THEN MAX30003_WriteReg(h, MAX30003_REG_FIFO_RST, MAX30003_FIFO_RST_D,
                           Resp(env, k0 + 1).st)
    ELSE NoCall

\* wrong: the FIFO reset is written before the drain
IRQHandler_Mut(h, garbage, env) ==
    Bind(MAX30003_GetInterruptStatus(h, garbage, env, 0),
         LAMBDA g :
           Bind(IrqReset(h, g.enabled_active, env, g.n),
                LAMBDA w :
                  Bind(IrqDrain(h, g.enabled_active, env,
                                g.n + (IF w.log = <<>> THEN 0 ELSE 1)),
                       LAMBDA f :
                         [log |-> g.log \o w.log \o f.log,
                          enabled_active |-> g.enabled_active,
                          status_gis |-> g.status, fault |-> f.fault])))

\* garbage = content of the uninitialised local enabled_active (line 40),
\* which stays in it when MAX30003_GetInterruptStatus fails
MAX30003_IRQHandler(h, garbage, env) ==
    Bind(MAX30003_GetInterruptStatus(h, garbage, env, 0),
         LAMBDA g :
           Bind(IrqDrain(h, g.enabled_active, env, g.n),
                LAMBDA f :
                  IF f.fault
                  THEN [log |-> g.log \o f.log,
                        enabled_active |-> g.enabled_active,
                        status_gis |-> g.status, fault |-> TRUE]
                  ELSE [log |-> g.log \o f.log
                                \o IrqReset(h, g.enabled_active, env,
                                            g.n + f.n).log,
                        enabled_active |-> g.enabled_active,
                        status_gis |-> g.status, fault |-> FALSE]))

\* HAL_GPIO_WritePin: the level of every pin after the GPIO writes of a log
\* (the last level written to the pin, if any)
GpioAfter(g, l) ==
    [p \in DOMAIN g |->
        LET W == {i \in 1..Len(l) :
                    l[i].ev = "gpio" /\ l[i].port = p[1] /\ l[i].pin = p[2]}
        IN  IF W = {} THEN g[p]
            ELSE l[CHOOSE i \in W : \A j \in W : j <= i].level]

\* wrong: port and pin are bound and the pin is driven before hspi is tested
Init_Mut(h, hspi, cs_port, cs_pin) ==
    IF hspi = NULL
    THEN [hmax   |-> [hspi |-> h.hspi, cs_port |-> cs_port, cs_pin |-> cs_pin],
          log    |-> <<GpioEv(cs_port, cs_pin, GPIO_PIN_SET)>>,
          status |-> HAL_ERROR]
    ELSE [hmax   |-> [hspi |-> hspi, cs_port |-> cs_port, cs_pin |-> cs_pin],
          log    |-> <<GpioEv(cs_port, cs_pin, GPIO_PIN_SET)>>,
          status |-> HAL_OK]

MAX30003_Init(h, hspi, cs_port, cs_pin) ==
    IF hspi = NULL
    THEN [hmax |-> h, log |-> <<>>, status |-> HAL_ERROR]
    ELSE [hmax   |-> [hspi |-> hspi, cs_port |-> cs_port, cs_pin |-> cs_pin],
          log    |-> <<GpioEv(cs_port, cs_pin, GPIO_PIN_SET)>>,
          status |-> HAL_OK]

\* wrong: the options are added to the base
RECURSIVE OrAll_Mut(_, _)
OrAll_Mut(base, opts) ==
    IF opts = <<>> THEN base ELSE OrAll_Mut(base + Head(opts), Tail(opts))

\* base | option | option | ...
RECURSIVE OrAll(_, _)
OrAll(base, opts) ==
    IF opts = <<>> THEN base ELSE OrAll(BitOr(base, Head(opts)), Tail(opts))

\* The ten writes of MAX30003_ConfigureRegistersDefault (lines 97-106):
\* register address and MAX30003_*_DEFAULT_CONFIG
ConfigDefaults ==
    << [reg |-> 2,  val |-> 3],          \* EN_INT,     0x000003
       [reg |-> 3,  val |-> 3],          \* EN_INT2,    0x000003
       [reg |-> 4,  val |-> 7864324],    \* MNGR_INT,   0x780004
       [reg |-> 5,  val |-> 4128768],    \* MNGR_DYN,   0x3F0000
       [reg |-> 16, val |-> 4],          \* CNFG_GEN,   0x000004
       [reg |-> 18, val |-> 18432],      \* CNFG_CAL,   0x004800
       [reg |-> 20, val |-> 3145728],    \* CNFG_EMUX,  0x300000
       [reg |-> 21, val |-> 8409088],    \* CNFG_ECG,   0x805000
       [reg |-> 29, val |-> 4137728],    \* CNFG_RTOR1, 0x3F2300
       [reg |-> 30, val |-> 2106368] >>  \* CNFG_RTOR2, 0x202400

\* The options ORed into each default by MAX30003_ConfigureRegisters
\* (lines 119-187), in the order written there
ConfigOptions ==
    << <<1 * 2^23, 1 * 2^22, 0 * 2^21, 0 * 2^20, 0 * 2^11, 0 * 2^10, 0 * 2^9,
         0 * 2^8, 3>>,
       <<1 * 2^23, 1 * 2^22, 0 * 2^21, 0 * 2^20, 0 * 2^11, 0 * 2^10, 0 * 2^9,
         0 * 2^8, 3>>,
       <<31 * 2^19, 0 * 2^6, 0 * 2^4, 1 * 2^2, 0>>,
       <<0 * 2^22, 63 * 2^16>>,
       <<0 * 2^22, 0 * 2^20, 1 * 2^19, 0 * 2^12, 0 * 2^11, 0 * 2^8, 0 * 2^6,
         0 * 2^4, 1 * 2^2, 0 * 2^1, 0>>,
       <<0 * 2^22, 0 * 2^21, 0 * 2^20, 4 * 2^12, 1 * 2^11, 0>>,
       <<0 * 2^23, 1 * 2^21, 1 * 2^20, 0 * 2^18, 0 * 2^16>>,
       <<0 * 2^22, 2 * 2^16, 1 * 2^14, 1 * 2^12>>,
       <<3 * 2^20, 15 * 2^16, 0 * 2^15, 2 * 2^12, 3 * 2^8>>,
       <<32 * 2^16, 2 * 2^12, 4 * 2^8>> >>

\* The register field each of these options selects, as <<shift, width>>:
\* the shift of the option macro and the width its alternatives (or its
\* *_MASK) take in max30003.h, in the order of ConfigOptions
ConfigFields ==
    << <<<<23, 1>>, <<22, 1>>, <<21, 1>>, <<20, 1>>, <<11, 1>>, <<10, 1>>,
         <<9, 1>>, <<8, 1>>, <<0, 2>>>>,
       <<<<23, 1>>, <<22, 1>>, <<21, 1>>, <<20, 1>>, <<11, 1>>, <<10, 1>>,
         <<9, 1>>, <<8, 1>>, <<0, 2>>>>,
       <<<<19, 5>>, <<6, 1>>, <<4, 2>>, <<2, 1>>, <<0, 2>>>>,
       <<<<22, 2>>, <<16, 6>>>>,
       <<<<22, 1>>, <<20, 2>>, <<19, 1>>, <<12, 1>>, <<11, 1>>, <<8, 3>>,
         <<6, 2>>, <<4, 1>>, <<2, 2>>, <<1, 1>>, <<0, 1>>>>,
       <<<<22, 1>>, <<21, 1>>, <<20, 1>>, <<12, 3>>, <<11, 1>>, <<0, 11>>>>,
       <<<<23, 1>>, <<21, 1>>, <<20, 1>>, <<18, 2>>, <<16, 2>>>>,
       <<<<22, 2>>, <<16, 2>>, <<14, 1>>, <<12, 2>>>>,
       <<<<20, 4>>, <<16, 4>>, <<15, 1>>, <<12, 2>>, <<8, 4>>>>,
       <<<<16, 6>>, <<12, 2>>, <<8, 3>>>> >>

\* the ten writes of MAX30003_ConfigureRegisters
ConfigCustom ==
    [j \in 1..Len(ConfigDefaults) |->
        [reg |-> ConfigDefaults[j].reg,
         val |-> OrAll(ConfigDefaults[j].val, ConfigOptions[j])]]

\* wrong: the writes go on after a failed write, the first failure is returned
RECURSIVE WriteRegs_Mut(_, _, _, _)
WriteRegs_Mut(h, ws, env, k) ==
    IF ws = <<>> THEN [log |-> <<>>, status |-> HAL_OK]
    ELSE Bind(MAX30003_WriteReg(h, Head(ws).reg, Head(ws).val, Resp(env, k).st),
              LAMBDA x :
                Bind(WriteRegs_Mut(h, Tail(ws), env, k + 1),
                     LAMBDA y : [log |-> x.log \o y.log,
                                 status |-> IF x.status # HAL_OK THEN x.status
                                            ELSE y.status]))

\* if((ret = MAX30003_WriteReg(...)) != HAL_OK) return ret;  for the writes
\* ws in order, the k-th exchange of the script first
RECURSIVE WriteRegs(_, _, _, _)
WriteRegs(h, ws, env, k) ==
    IF ws = <<>> THEN [log |-> <<>>, status |-> HAL_OK]
    ELSE Bind(MAX30003_WriteReg(h, Head(ws).reg, Head(ws).val, Resp(env, k).st),
              LAMBDA x :
                IF x.status # HAL_OK THEN x
                ELSE Bind(WriteRegs(h, Tail(ws), env, k + 1),
                          LAMBDA y : [log |-> x.log \o y.log,
                                      status |-> y.status]))

MAX30003_ConfigureRegistersDefault(h, env) == WriteRegs(h, ConfigDefaults, env, 1)

MAX30003_ConfigureRegisters(h, env) == WriteRegs(h, ConfigCustom, env, 1)

----------------------------------------------------------------------------
(* Inputs *)

Pins == {<<"GPIOA", 16>>, <<"GPIOB", 64>>}

RegSet == 0..255

RxSet == {<<0, 0, 0, 0>>, <<255, 255, 255, 255>>, <<0, 18, 52, 86>>,
          <<255, 18, 52, 86>>, <<170, 128, 0, 3>>}

ValSet == {0, 1, 16777215, 16777216, 1193046, 2147483647, 2^30 + 1193046,
           8388608 + 255}

DataOldSet == {0, 11259375}

\* what one register exchange may answer
OkResp == {[st |-> HAL_OK, n |-> 4, rx |-> b] : b \in RxSet}
FailResp == {[st |-> s, n |-> k, rx |-> <<255, 255, 255, 255>>] :
                s \in HAL_Failures, k \in {0, 3}}

\* 24-bit register contents: 0, 0xFFFFFF, 0x800000, 0x800003, 0xF00F00,
\* 0x0FF0FF, 0x400000, 0xC00000, 0x000100, 0x000801, 0x300F00, 0x123456
RegVals == {0, 16777215, 8388608, 8388611, 15732480, 1044735, 4194304,
            12582912, 256, 2049, 3149568, 1193046}

\* STATUS / EN_INT contents tried under the interrupt handler
IrqVals == {0, 16777215, 8388608, 8388611, 4194304, 12582912, 3149568}

\* contents of uninitialised stack memory tried for enabled_active
GarbageSet == {0, 8388608, 4194304, 12582912, 2147483647, 3149568}

FailBytes == {0, 2}

\* scripts in which every exchange succeeds / exactly the exchanges F fail
OkEnvs(heads, pats, nulls) ==
    {[fails |-> {}, fst |-> HAL_OK, fn |-> 4, head |-> hd, pat |-> p,
      nullstore |-> ns] : hd \in heads, p \in pats, ns \in nulls}
FailEnvs(Fs, fns, heads, nulls) ==
    {[fails |-> F, fst |-> s, fn |-> k, head |-> hd, pat |-> 1,
      nullstore |-> ns] :
        F \in Fs, s \in HAL_Failures, k \in fns, hd \in heads, ns \in nulls}

\* the answers to the STATUS read and to the EN_INT read
RegHeads(b0s, vals) ==
    {<<Bytes(b0, s), Bytes(b0, e)>> : b0 \in b0s, s \in vals, e \in vals}

\* 18-bit samples and FIFO words (sample, tag, reserved bits [2:0]) passed
\* to the two extractors; 0x123456 and two words wider than 24 bits
SampleSet == {0, 1, 262143, 131072, 131071, 74565, 174762}
WordSet ==
    {s * 64 + e * 8 + r : s \in SampleSet, e \in 0..7, r \in {0, 5, 7}}
    \cup {1193046, 16777216 + 24, 2147483647}

\* fifo_data of a direct caller: a buffer of count words holding 0xEEEEEE
CallerBuf(count) == [null |-> FALSE, mem |-> [j \in 1..count |-> 15658734]]

----------------------------------------------------------------------------
(* State machine *)

Init ==
    /\ hmax = [hspi |-> NULL, cs_port |-> NULL, cs_pin |-> 0]
    /\ gpio = [p \in Pins |-> GPIO_PIN_RESET]
    /\ pc = "idle"
    /\ op = "none"
    /\ args = [x |-> 0]
    /\ log = <<>>
    /\ ret = "none"
    /\ data = 0
    /\ fifo_data = <<>>

Bound == pc = "idle" /\ hmax.hspi # NULL

Call_Init ==
    /\ pc = "idle"
    /\ hmax.hspi = NULL
    /\ \E hspi \in {NULL, "hspi1"}, p \in Pins :
         \E x \in {MAX30003_Init(hmax, hspi, p[1], p[2])} :
             /\ hmax' = x.hmax
             /\ gpio' = GpioAfter(gpio, x.log)
             /\ op' = "Init"
             /\ args' = [hspi |-> hspi, cs_port |-> p[1], cs_pin |-> p[2],
                         hmax_old |-> hmax]
             /\ log' = x.log
             /\ ret' = x.status
    /\ pc' = "returned"
    /\ UNCHANGED <<data, fifo_data>>

Call_ReadReg ==
    /\ Bound
    /\ \E reg \in RegSet, d0 \in DataOldSet, r \in OkResp \cup FailResp :
         \E x \in {MAX30003_ReadReg(hmax, reg, d0, r)} :
             /\ gpio' = GpioAfter(gpio, x.log)
             /\ op' = "ReadReg"
             /\ args' = [reg |-> reg, data_old |-> d0, r |-> r]
             /\ log' = x.log
             /\ ret' = x.status
             /\ data' = x.data
    /\ pc' = "returned"
    /\ UNCHANGED <<hmax, fifo_data>>

Call_WriteReg ==
    /\ Bound
    /\ \E reg \in RegSet, v \in ValSet, st \in HAL_StatusTypeDef :
         \E x \in {MAX30003_WriteReg(hmax, reg, v, st)} :
             /\ gpio' = GpioAfter(gpio, x.log)
             /\ op' = "WriteReg"
             /\ args' = [reg |-> reg, value |-> v, st |-> st]
             /\ log' = x.log
             /\ ret' = x.status
    /\ pc' = "returned"
    /\ UNCHANGED <<hmax, data, fifo_data>>

\* the largest values of the uint8_t count
BigCounts == {254, 255}

\* scripts of a MAX30003_ReadFIFO(count) call: no failure, or one failed
\* exchange (any of them for the small counts, the first, the 200th or the
\* last for the largest)
ReadFIFOEnvs(count) ==
    IF count \in BigCounts
    THEN OkEnvs({<<>>}, {1}, {"none"})
         \cup FailEnvs({{1}, {200}, {count}}, {0}, {<<>>}, {"none"})
    ELSE OkEnvs({<<>>}, {1, 2}, {"none"})
         \cup FailEnvs({{k} : k \in 1..count}, FailBytes, {<<>>}, {"none"})

Call_ReadFIFO ==
    /\ Bound
    /\ \E count \in (0..MaxCount) \cup BigCounts :
         \E env \in ReadFIFOEnvs(count) :
           \E x \in {MAX30003_ReadFIFO(hmax, CallerBuf(count), count, env, 0)} :
               /\ gpio' = GpioAfter(gpio, x.log)
               /\ op' = "ReadFIFO"
               /\ args' = [count |-> count, env |-> env]
               /\ log' = x.log
               /\ ret' = x.status
               /\ fifo_data' = x.mem
    /\ pc' = "returned"
    /\ UNCHANGED <<hmax, data>>

Call_GetInterruptStatus ==
    /\ Bound
    /\ \E ea_old \in DataOldSet :
         \E env \in OkEnvs(RegHeads({0, 255}, RegVals), {1}, {"none"})
                    \cup FailEnvs({{1}, {2}, {1, 2}}, FailBytes,
                                  RegHeads({255}, {16777215}), {"none"}) :
           \E x \in {MAX30003_GetInterruptStatus(hmax, ea_old, env, 0)} :
               /\ gpio' = GpioAfter(gpio, x.log)
               /\ op' = "GetInterruptStatus"
               /\ args' = [data_old |-> ea_old, env |-> env]
               /\ log' = x.log
               /\ ret' = x.status
               /\ data' = x.enabled_active
    /\ pc' = "returned"
    /\ UNCHANGED <<hmax, fifo_data>>

\* exchanges that fail in one pass of the handler: during the two status
\* reads (and possibly once more later), or later only
IrqFailsEarly == {{1}, {2}, {1, 2}, {1, 3}, {2, 3}, {1, MAX30003_FIFO_LENGTH + 2}}
IrqFailsLate == {{k} : k \in 3..(MAX30003_FIFO_LENGTH + 3)} \cup {{3, 4}}

\* (garbage, script) of one pass; the garbage in enabled_active is read
\* only when a status read fails
IrqInputs ==
    ({0} \X OkEnvs(RegHeads({0}, IrqVals), {1}, {"trap", "none"}))
    \cup (GarbageSet \X FailEnvs(IrqFailsEarly, {0}, RegHeads({0}, {16777215}),
                                 {"trap", "none"}))
    \cup ({0} \X FailEnvs(IrqFailsLate, {0},
                          RegHeads({0}, {16777215, 8388608, 4194304}),
                          {"trap", "none"}))

Call_IRQHandler ==
    /\ Bound
    /\ \E inp \in IrqInputs :
         \E x \in {MAX30003_IRQHandler(hmax, inp[1], inp[2])} :
               /\ gpio' = GpioAfter(gpio, x.log)
               /\ op' = "IRQHandler"
               /\ args' = [garbage |-> inp[1], env |-> inp[2],
                           status_gis |-> x.status_gis]
               /\ log' = x.log
               /\ ret' = IF x.fault THEN "none" ELSE "void"
               /\ data' = x.enabled_active
               /\ pc' = IF x.fault THEN "fault" ELSE "returned"
    /\ UNCHANGED <<hmax, fifo_data>>

ConfigEnvs ==
    OkEnvs({<<>>}, {1}, {"none"})
    \cup FailEnvs({{k} : k \in 1..Len(ConfigDefaults)}, {0}, {<<>>}, {"none"})

Call_ConfigureRegistersDefault ==
    /\ Bound
    /\ \E env \in ConfigEnvs :
         \E x \in {MAX30003_ConfigureRegistersDefault(hmax, env)} :
             /\ gpio' = GpioAfter(gpio, x.log)
             /\ op' = "ConfigureRegistersDefault"
             /\ args' = [env |-> env]
             /\ log' = x.log
             /\ ret' = x.status
    /\ pc' = "returned"
    /\ UNCHANGED <<hmax, data, fifo_data>>

Call_ConfigureRegisters ==
    /\ Bound
    /\ \E env \in ConfigEnvs :
         \E x \in {MAX30003_ConfigureRegisters(hmax, env)} :
             /\ gpio' = GpioAfter(gpio, x.log)
             /\ op' = "ConfigureRegisters"
             /\ args' = [env |-> env]
             /\ log' = x.log
             /\ ret' = x.status
    /\ pc' = "returned"
    /\ UNCHANGED <<hmax, data, fifo_data>>

Call_ExtractETag ==
    /\ pc = "idle"
    /\ \E word \in WordSet :
         /\ op' = "ExtractETag"
         /\ args' = [word |-> word]
         /\ data' = MAX30003_ExtractETag(word)
    /\ log' = <<>>
    /\ ret' = "value"
    /\ pc' = "returned"
    /\ UNCHANGED <<hmax, gpio, fifo_data>>

Call_ExtractECGData ==
    /\ pc = "idle"
    /\ \E word \in WordSet :
         /\ op' = "ExtractECGData"
         /\ args' = [word |-> word]
         /\ data' = MAX30003_ExtractECGData(word)
    /\ log' = <<>>
    /\ ret' = "value"
    /\ pc' = "returned"
    /\ UNCHANGED <<hmax, gpio, fifo_data>>

\* etag is a uint8_t: every value is tried, not only the 3-bit tags
Call_HandleETag ==
    /\ pc = "idle"
    /\ \E etag \in 0..255, ecg_sample \in {0, 262143} :
         /\ op' = "HandleETag"
         /\ args' = [etag |-> etag, ecg_sample |-> ecg_sample,
                     branch |-> MAX30003_HandleETag(etag, ecg_sample)]
    /\ log' = <<>>
    /\ ret' = "void"
    /\ pc' = "returned"
    /\ UNCHANGED <<hmax, gpio, data, fifo_data>>

\* the call has returned; the caller goes on to its next call
Return ==
    /\ pc = "returned"
    /\ pc' = "idle"
    /\ op' = "none"
    /\ args' = [x |-> 0]
    /\ log' = <<>>
    /\ ret' = "none"
    /\ data' = 0
    /\ fifo_data' = <<>>
    /\ UNCHANGED <<hmax, gpio>>

Next ==
    \/ Call_Init
    \/ Call_ReadReg
    \/ Call_WriteReg
    \/ Call_ReadFIFO
    \/ Call_GetInterruptStatus
    \/ Call_IRQHandler
    \/ Call_ConfigureRegistersDefault
    \/ Call_ConfigureRegisters
    \/ Call_ExtractETag
    \/ Call_ExtractECGData
    \/ Call_HandleETag
    \/ Return

Spec == Init /\ [][Next]_vars

----------------------------------------------------------------------------
(* Statement-level specification: two threads of control on one handle.    *)
(*                                                                         *)
(* The main line calls MAX30003_WriteReg; the interrupt line runs          *)
(* MAX30003_IRQHandler, which pre-empts the main line between any two of   *)
(* its statements and runs to completion.  One action is one statement of  *)
(* MAX30003_SPI_TransmitReceive (lines 88-90) or of MAX30003_WriteReg      *)
(* (lines 133-135); the blocking HAL transfer is split into its start and  *)
(* its return.  The driver takes no lock (there is none in max30003.c);    *)
(* args.serialized says whether the callers serialize their calls          *)
(* themselves, i.e. the handler is held off while the main line is inside  *)
(* a driver call.  The STATUS and EN_INT contents and the garbage in the   *)
(* handler's enabled_active never have EINT set here, so the handler's     *)
(* exchanges are the two status reads and the FIFO_RST write.              *)
(*                                                                         *)
(* The variables hold, per thread t: pc[t] the statement t is at ("idle",  *)
(* "cs_low", "xfer", "in_xfer", "cs_high"), op[t] the driver function it   *)
(* is in, ret[t] the status of its last transfer; args the frame of each   *)
(* thread, the exchange number k of the handler and the run counters; data *)
(* the handler's locals and the number of frames started under the current *)
(* chip-select assertion.                                                  *)

Threads == {"main", "irq"}

CsPin == <<hmax.cs_port, hmax.cs_pin>>

\* STATUS / EN_INT contents and stack garbage of the handler
PreemptVals == {0, MAX30003_INT_EOVF}

\* statuses a transfer returns
PreemptStatus == {HAL_OK, HAL_TIMEOUT}

InitPreempt ==
    /\ hmax = MAX30003_Init([hspi |-> NULL, cs_port |-> NULL, cs_pin |-> 0],
                            "hspi1", "GPIOA", 16).hmax
    /\ gpio = GpioAfter([p \in Pins |-> GPIO_PIN_RESET],
                        MAX30003_Init([hspi |-> NULL, cs_port |-> NULL,
                                       cs_pin |-> 0],
                                      "hspi1", "GPIOA", 16).log)
    /\ pc = [t \in Threads |-> "idle"]
    /\ op = [t \in Threads |-> "none"]
    /\ \E b \in BOOLEAN :
         args = [serialized |-> b,
                 tx |-> [t \in Threads |-> <<>>],
                 k |-> 0, calls |-> 0, passes |-> 0]
    /\ log = <<>>
    /\ ret = [t \in Threads |-> "none"]
    /\ data = [raw_status |-> 0, en_int_reg |-> 0, enabled_active |-> 0,
               frames |-> 0]
    /\ fifo_data = <<>>

\* the handler has priority: the main line runs only while it is not active
Runs(t) == t = "irq" \/ pc.irq = "idle"

\* the main line enters MAX30003_WriteReg: tx_buf is built (lines 126-131)
Main_WriteReg ==
    /\ pc.main = "idle"
    /\ Runs("main")
    /\ args.calls < MaxCalls
    /\ \E v \in {0, 8409088} :
         args' = [args EXCEPT !.tx.main = WriteRegTx(21, v), !.calls = @ + 1]
    /\ pc' = [pc EXCEPT !.main = "cs_low"]
    /\ op' = [op EXCEPT !.main = "WriteReg"]
    /\ UNCHANGED <<hmax, gpio, log, ret, data, fifo_data>>

\* the interrupt fires: MAX30003_IRQHandler enters MAX30003_GetInterruptStatus
\* and its first MAX30003_ReadReg; enabled_active holds garbage
Irq_Enter ==
    /\ pc.irq = "idle"
    /\ args.passes < MaxPasses
    /\ args.serialized => pc.main = "idle"
    /\ \E g \in PreemptVals :
         data' = [data EXCEPT !.enabled_active = g, !.raw_status = 0,
                              !.en_int_reg = 0]
    /\ args' = [args EXCEPT !.tx.irq = ReadRegTx(MAX30003_REG_STATUS),
                            !.k = 1, !.passes = @ + 1]
    /\ pc' = [pc EXCEPT !.irq = "cs_low"]
    /\ op' = [op EXCEPT !.irq = "ReadReg"]
    /\ UNCHANGED <<hmax, gpio, log, ret, fifo_data>>

\* HAL_GPIO_WritePin(cs_port, cs_pin, GPIO_PIN_RESET) (lines 88, 133)
WritePinReset(g, p) == [g EXCEPT ![p] = GPIO_PIN_RESET]

\* wrong: chip-select is not driven high after the transfer
WritePinSet_Mut(g, p) == g

\* HAL_GPIO_WritePin(cs_port, cs_pin, GPIO_PIN_SET) (lines 90, 135)
WritePinSet(g, p) == [g EXCEPT ![p] = GPIO_PIN_SET]

T_CsLow(t) ==
    /\ pc[t] = "cs_low"
    /\ Runs(t)
    /\ gpio' = WritePinReset(gpio, CsPin)
    /\ pc' = [pc EXCEPT ![t] = "xfer"]
    /\ UNCHANGED <<hmax, op, args, log, ret, data, fifo_data>>

\* the HAL transfer is called (lines 89, 134).  While the other thread's
\* transfer is in progress the HAL may refuse with HAL_BUSY at once;
\* otherwise the frame starts on the wire.
T_XferBegin(t) ==
    /\ pc[t] = "xfer"
    /\ Runs(t)
    /\ \/ /\ pc' = [pc EXCEPT ![t] = "in_xfer"]
          /\ data' = [data EXCEPT !.frames = @ + 1]
          /\ UNCHANGED ret
       \/ /\ \E u \in Threads \ {t} : pc[u] = "in_xfer"
          /\ pc' = [pc EXCEPT ![t] = "cs_high"]
          /\ ret' = [ret EXCEPT ![t] = HAL_BUSY]
          /\ UNCHANGED data
    /\ UNCHANGED <<hmax, gpio, op, args, log, fifo_data>>

\* the HAL transfer returns; a successful read stores the register value
\* (ReadReg lines 109-111, into raw_status or en_int_reg of the caller)
T_XferEnd(t) ==
    /\ pc[t] = "in_xfer"
    /\ Runs(t)
    /\ \E st \in PreemptStatus,
          w \in (IF op[t] = "ReadReg" THEN PreemptVals ELSE {0}) :
         /\ ret' = [ret EXCEPT ![t] = st]
         /\ data' = IF op[t] = "ReadReg" /\ st = HAL_OK
                    THEN IF args.k = 1
                         THEN [data EXCEPT !.raw_status = RxWord(Bytes(0, w))]
                         ELSE [data EXCEPT !.en_int_reg = RxWord(Bytes(0, w))]
                    ELSE data
    /\ pc' = [pc EXCEPT ![t] = "cs_high"]
    /\ UNCHANGED <<hmax, gpio, op, args, log, fifo_data>>

\* the handler after MAX30003_GetInterruptStatus returned with ea in
\* enabled_active (max30003_example.c lines 46-47): the FIFO_RST write when
\* EOVF is set, the end of the pass otherwise
IrqDispatch(ea) ==
    IF BitAnd(ea, MAX30003_INT_EOVF) # 0
    THEN [at |-> "cs_low", fn |-> "WriteReg", k |-> 3,
          tx |-> WriteRegTx(MAX30003_REG_FIFO_RST, MAX30003_FIFO_RST_D),
          ea |-> ea]
    ELSE [at |-> "idle", fn |-> "none", k |-> 0, tx |-> <<>>, ea |-> ea]

\* where the handler goes on after the exchange k returned status st
\* (GetInterruptStatus lines 177-187, then the dispatch)
IrqNext(k, st, d) ==
    IF k = 1 /\ st = HAL_OK
    THEN [at |-> "cs_low", fn |-> "ReadReg", k |-> 2,
          tx |-> ReadRegTx(MAX30003_REG_EN_INT), ea |-> d.enabled_active]
    ELSE IF k = 2 /\ st = HAL_OK
    THEN IrqDispatch(EnabledActive(d.raw_status, d.en_int_reg))
    ELSE IF k \in {1, 2}
    THEN IrqDispatch(d.enabled_active)
    ELSE [at |-> "idle", fn |-> "none", k |-> 0, tx |-> <<>>,
          ea |-> d.enabled_active]

\* chip-select is driven high (lines 90, 135) and the function returns to
\* its caller: the main line, or the next statement of the handler
T_CsHigh(t) ==
    /\ pc[t] = "cs_high"
    /\ Runs(t)
    /\ gpio' = WritePinSet(gpio, CsPin)
    /\ IF t = "main"
       THEN /\ pc' = [pc EXCEPT !.main = "idle"]
            /\ op' = [op EXCEPT !.main = "none"]
            /\ data' = [data EXCEPT
                          !.frames = IF gpio'[CsPin] = GPIO_PIN_SET THEN 0 ELSE @]
            /\ UNCHANGED args
       ELSE \E x \in {IrqNext(args.k, ret.irq, data)} :
            /\ pc' = [pc EXCEPT !.irq = x.at]
            /\ op' = [op EXCEPT !.irq = x.fn]
            /\ args' = [args EXCEPT !.k = x.k, !.tx.irq = x.tx]
            /\ data' = [data EXCEPT
                          !.enabled_active = x.ea,
                          !.frames = IF gpio'[CsPin] = GPIO_PIN_SET THEN 0 ELSE @]
    /\ UNCHANGED <<hmax, log, ret, fifo_data>>

NextPreempt ==
    \/ Main_WriteReg
    \/ Irq_Enter
    \/ \E t \in Threads : T_CsLow(t)
    \/ \E t \in Threads : T_XferBegin(t)
    \/ \E t \in Threads : T_XferEnd(t)
    \/ \E t \in Threads : T_CsHigh(t)

SpecPreempt == InitPreempt /\ [][NextPreempt]_vars

----------------------------------------------------------------------------
(* Views of the history of a call *)

\* the SPI transfers of a log, in order
Spi(l) == SelectSeq(l, LAMBDA e : e.ev = "spi")

\* the GPIO writes and SPI transfers of a log, in order
Bus(l) == SelectSeq(l, LAMBDA e : e.ev # "store")

\* the indices stored through fifo_data
StoredIdx(l) ==
    {l[j].idx : j \in {j \in 1..Len(l) : l[j].ev = "store" /\ l[j].dir = "fifo_data"}}

\* the 24-bit word carried by the answer to the j-th exchange of a script
AnsweredWord(env, j) ==
    RxOf(env, j)[2] * 65536 + RxOf(env, j)[3] * 256 + RxOf(env, j)[4]

Bit(v, b) == (v \div (2^b)) % 2

\* a FIFO read exchange (command 0x41, 0x43 or the continuation 0x00) and
\* the FIFO_RST write (command 0x14)
IsFifoRead(e) == e.ev = "spi" /\ e.dir = "txrx" /\ e.tx[1] \in {65, 67, 0}
IsFifoRst(e) == e.ev = "spi" /\ e.dir = "tx" /\ e.tx[1] = 20

TransferOps == {"ReadReg", "WriteReg", "ReadFIFO", "GetInterruptStatus",
                "IRQHandler", "ConfigureRegistersDefault", "ConfigureRegisters"}

----------------------------------------------------------------------------
(* Claims *)

\* C1: in a pass of MAX30003_IRQHandler whose STATUS or EN_INT read fails,
\* no FIFO read exchange and no FIFO_RST write is issued.
C1_FailedStatusReadAbortsPass ==
    (op = "IRQHandler" /\ args.status_gis # HAL_OK) =>
        \A j \in 1..Len(log) : ~IsFifoRead(log[j]) /\ ~IsFifoRst(log[j])

\* C2: when the k-th exchange of MAX30003_ReadFIFO fails, exactly the slots
\* 0..k-2 are written (with the words of the successful exchanges) and no
\* slot with index >= k-1 is written.
C2_FailureAtKWritesKMinus1Slots ==
    (op = "ReadFIFO" /\ ret # HAL_OK) =>
        LET k == Len(Spi(log))
        IN  /\ StoredIdx(log) = 0..(k - 2)
            /\ \A i \in 0..(k - 2) : fifo_data[i + 1] = AnsweredWord(args.env, i + 1)
            /\ \A i \in (k - 1)..(args.count - 1) :
                 fifo_data[i + 1] = CallerBuf(args.count).mem[i + 1]

\* C3: MAX30003_ReadFIFO stops at the first failed exchange: a failed
\* exchange is the last one of the call, its status is the status returned,
\* and every slot written by an earlier successful exchange holds its word.
C3_ReadFIFOStopsAtFirstFailure ==
    op = "ReadFIFO" =>
        LET x == Spi(log)
            k == Len(x)
        IN  /\ \A j \in 1..k : x[j].st # HAL_OK => j = k
            /\ ret = IF k = 0 THEN HAL_OK ELSE x[k].st
            /\ args.env.fails # {} => /\ args.env.fails = {k}
                                      /\ ret = args.env.fst
            /\ \A j \in 1..k :
                 x[j].st = HAL_OK => fifo_data[j] = AnsweredWord(args.env, j)

C3_Witness ==
    /\ op = "ReadFIFO" /\ args.count = 5 /\ ret = HAL_TIMEOUT
    /\ Len(Spi(log)) = 3
    /\ fifo_data[1] = AnsweredWord(args.env, 1)
    /\ fifo_data[2] = AnsweredWord(args.env, 2)

\* C4: with count in 1..32 and every exchange succeeding, MAX30003_ReadFIFO
\* issues exactly count 4-byte exchanges: the first with command 0x43 when
\* count = 1 and 0x41 when count > 1, the later ones with command 0x00, all
\* with three zero payload bytes.
C4_ReadFIFOFrames ==
    (op = "ReadFIFO" /\ args.count \in 1..32 /\ ret = HAL_OK) =>
        LET x == Spi(log)
        IN  /\ Len(x) = args.count
            /\ x[1].tx = <<IF args.count = 1 THEN 67 ELSE 65, 0, 0, 0>>
            /\ \A j \in 2..Len(x) : x[j].tx = <<0, 0, 0, 0>>
            /\ \A j \in 1..Len(x) : x[j].size = 4 /\ x[j].dir = "txrx"

C4_Witness ==
    /\ op = "ReadFIFO" /\ args.count = 4 /\ ret = HAL_OK
    /\ [j \in 1..4 |-> Spi(log)[j].tx[1]] = <<65, 0, 0, 0>>

\* C5: for every addr in 0x00..0x7F, MAX30003_ReadReg(addr) performs exactly
\* one full-duplex exchange of 4 bytes transmitting [(addr<<1)|1, 0, 0, 0].
C5_ReadRegFrame ==
    (op = "ReadReg" /\ args.reg \in 0..127) =>
        /\ Len(Spi(log)) = 1
        /\ Spi(log)[1].dir = "txrx"
        /\ Spi(log)[1].size = 4
        /\ Spi(log)[1].tx = <<2 * args.reg + 1, 0, 0, 0>>

C5_Witness ==
    /\ op = "ReadReg" /\ args.reg = 127
    /\ Spi(log)[1].tx = <<255, 0, 0, 0>>

\* C6: for every addr in 0x00..0x7F and every value v, MAX30003_WriteReg
\* transmits in one transfer exactly the 4 bytes [(addr<<1)&0xFE, (v>>16)&0xFF,
\* (v>>8)&0xFF, v&0xFF], which is also the frame for v & 0xFFFFFF.
C6_WriteRegFrame ==
    (op = "WriteReg" /\ args.reg \in 0..127) =>
        /\ Len(Spi(log)) = 1
        /\ Spi(log)[1].dir = "tx"
        /\ Spi(log)[1].size = 4
        /\ Spi(log)[1].tx = <<2 * args.reg,
                              (args.value \div 65536) % 256,
                              (args.value \div 256) % 256,
                              args.value % 256>>
        /\ log = MAX30003_WriteReg(hmax, args.reg, args.value % 16777216, ret).log

C6_Witness ==
    /\ op = "WriteReg" /\ args.reg = 21 /\ args.value = 2^30 + 1193046
    /\ Spi(log)[1].tx = <<42, 18, 52, 86>>

\* C7: when the exchange of MAX30003_ReadReg succeeds with response bytes
\* r0,r1,r2,r3, the value stored is r1*65536 + r2*256 + r3: below 2^24 and
\* independent of r0.
C7_ReadRegValue ==
    (op = "ReadReg" /\ ret = HAL_OK) =>
        /\ data = args.r.rx[2] * 65536 + args.r.rx[3] * 256 + args.r.rx[4]
        /\ data < 16777216
        /\ log[Len(log)] = StoreEv("data", 0, data)

C7_Witness ==
    /\ op = "ReadReg" /\ ret = HAL_OK
    /\ args.r.rx = <<255, 18, 52, 86>>
    /\ data = 1193046

\* C8: every 4-byte bus transfer of a driver call is preceded by exactly one
\* chip-select assert and followed by exactly one deassert, with no second
\* transfer under the same assertion, and chip-select is deasserted whenever
\* no transfer is in progress, also after a failed transfer.
C8_ChipSelectBrackets ==
    /\ hmax.hspi # NULL => gpio[<<hmax.cs_port, hmax.cs_pin>>] = GPIO_PIN_SET
    /\ op \in TransferOps =>
         LET b == Bus(log)
         IN  /\ Len(b) % 3 = 0
             /\ \A j \in 1..Len(b) :
                  /\ j % 3 = 1 => b[j] = GpioEv(hmax.cs_port, hmax.cs_pin, GPIO_PIN_RESET)
                  /\ j % 3 = 2 => b[j].ev = "spi" /\ b[j].size = 4
                  /\ j % 3 = 0 => b[j] = GpioEv(hmax.cs_port, hmax.cs_pin, GPIO_PIN_SET)

C8_Witness ==
    /\ op = "ReadFIFO" /\ ret # HAL_OK
    /\ Len(Spi(log)) = 3
    /\ Len(Bus(log)) = 9
    /\ gpio[<<hmax.cs_port, hmax.cs_pin>>] = GPIO_PIN_SET

\* C9: for 24-bit STATUS and EN_INT contents, a successful
\* MAX30003_GetInterruptStatus stores exactly status & en_int & 0xF00F00:
\* bit b of the result is set iff b is one of 23,22,21,20,11,10,9,8 and is
\* set in both registers.
C9_EnabledActiveMask ==
    (op = "GetInterruptStatus" /\ ret = HAL_OK) =>
        LET status == AnsweredWord(args.env, 1)
            en_int == AnsweredWord(args.env, 2)
        IN  /\ data < 16777216
            /\ \A b \in 0..23 :
                 Bit(data, b) = IF b \in {23, 22, 21, 20, 11, 10, 9, 8}
                                THEN Bit(status, b) * Bit(en_int, b) ELSE 0
            /\ (status = 0 /\ en_int = 0) => data = 0
            /\ (status = 16777215 /\ en_int = 16777215) => data = 15732480
            /\ (status = 8388608 /\ en_int = 8388611) => data = 8388608

C9_Witness ==
    /\ op = "GetInterruptStatus" /\ ret = HAL_OK
    /\ AnsweredWord(args.env, 1) = 8388608
    /\ AnsweredWord(args.env, 2) = 8388611
    /\ data = 8388608

\* C10: MAX30003_GetInterruptStatus reads STATUS (command 0x03) before EN_INT
\* (command 0x05), exactly these two exchanges on success; in every pass of
\* MAX30003_IRQHandler these two reads precede any FIFO read or FIFO_RST write.
C10_StatusReadsFirst ==
    /\ (op = "GetInterruptStatus" /\ ret = HAL_OK) =>
          [j \in 1..Len(Spi(log)) |-> Spi(log)[j].tx] = <<<<3, 0, 0, 0>>, <<5, 0, 0, 0>>>>
    /\ op = "IRQHandler" =>
          \A j \in 1..Len(Spi(log)) :
             (IsFifoRead(Spi(log)[j]) \/ IsFifoRst(Spi(log)[j])) =>
                 /\ j > 2
                 /\ Spi(log)[1].tx = <<3, 0, 0, 0>>
                 /\ Spi(log)[2].tx = <<5, 0, 0, 0>>


\* the FIFO read exchanges and the register writes of a log, in order
FifoReads(l) == SelectSeq(l, IsFifoRead)
RegWrites(l) == SelectSeq(l, LAMBDA e : e.ev = "spi" /\ e.dir = "tx")

\* C11: in a pass of MAX30003_IRQHandler whose two status reads succeed with
\* bit 23 (EINT) of status & en_int set and in which no FIFO read exchange
\* fails, exactly 32 FIFO read exchanges are issued: command byte 0x41 first,
\* then 31 with command byte 0x00.
C11_DrainIs32Exchanges ==
    (/\ op = "IRQHandler" /\ args.status_gis = HAL_OK /\ Bit(data, 23) = 1
     /\ \A j \in 1..Len(FifoReads(log)) : FifoReads(log)[j].st = HAL_OK) =>
        /\ Len(FifoReads(log)) = MAX30003_FIFO_LENGTH
        /\ FifoReads(log)[1].tx = <<65, 0, 0, 0>>
        /\ \A j \in 2..Len(FifoReads(log)) : FifoReads(log)[j].tx = <<0, 0, 0, 0>>

\* C12: in a pass of MAX30003_IRQHandler whose two status reads succeed with
\* bit 22 (EOVF) of status & en_int set, exactly one register write is
\* issued, and it is the frame [0x14, 0, 0, 0] (FIFO_RST, value 0).
C12_OverflowResetsFifoOnce ==
    (op = "IRQHandler" /\ args.status_gis = HAL_OK /\ Bit(data, 22) = 1) =>
        /\ Len(RegWrites(log)) = 1
        /\ RegWrites(log)[1].tx = <<20, 0, 0, 0>>
        /\ RegWrites(log)[1].size = 4

\* C13: in a pass of MAX30003_IRQHandler where EINT and EOVF are both enabled
\* and active and an exchange of the FIFO drain fails, the failed exchange is
\* the last exchange of the pass (no FIFO_RST write follows) and the pass
\* reports the failure to its caller.
C13_DispatchAbortsAtFirstError ==
    (/\ op = "IRQHandler" /\ args.status_gis = HAL_OK
     /\ Bit(data, 23) = 1 /\ Bit(data, 22) = 1
     /\ \E j \in 1..Len(FifoReads(log)) : FifoReads(log)[j].st # HAL_OK) =>
        /\ Spi(log)[Len(Spi(log))].st # HAL_OK
        /\ RegWrites(log) = <<>>
        /\ ret \in HAL_Failures


\* the variant of the tag classification a branch of MAX30003_HandleETag
\* stands for
BranchFamily(branch) ==
    CASE branch \in {"case VALID", "case VALID_EOF"} -> "Valid"
      [] branch \in {"case FAST", "case FAST_EOF"}   -> "FastRecovery"
      [] branch = "case EMPTY"                       -> "Empty"
      [] branch = "case OVERFLOW"                    -> "Overflow"
      [] OTHER                                       -> "Reserved"

\* C14: MAX30003_HandleETag classifies every 3-bit tag: 0 and 2 as Valid,
\* 1 and 3 as FastRecovery, 6 as Empty, 7 as Overflow, 4 and 5 as Reserved.
C14_ETagClassification ==
    (op = "HandleETag" /\ args.etag \in 0..7) =>
        BranchFamily(args.branch) =
            CASE args.etag \in {0, 2} -> "Valid"
              [] args.etag \in {1, 3} -> "FastRecovery"
              [] args.etag = 6        -> "Empty"
              [] args.etag = 7        -> "Overflow"
              [] OTHER                -> "Reserved"

\* C15: for every 24-bit FIFO word w, MAX30003_ExtractETag(w) is bits [5:3]
\* of w and MAX30003_ExtractECGData(w) is bits [23:6] of w; the results lie
\* in 0..7 and 0..0x3FFFF and do not change with the reserved bits [2:0].
C15_ExtractFields ==
    /\ (op = "ExtractETag" /\ args.word < 16777216) =>
          /\ data = (args.word \div 8) % 8
          /\ data \in 0..7
          /\ \A r \in 0..7 :
               MAX30003_ExtractETag(args.word - (args.word % 8) + r) = data
    /\ (op = "ExtractECGData" /\ args.word < 16777216) =>
          /\ data = (args.word \div 64) % 262144
          /\ data \in 0..262143
          /\ \A r \in 0..7 :
               MAX30003_ExtractECGData(args.word - (args.word % 8) + r) = data

C15_Witness ==
    /\ op = "ExtractECGData" /\ args.word = 1193046
    /\ data = 18641

\* C16: for every etag in 0..7 and every 18-bit sample, the word
\* w = (sample << 6) | (etag << 3) decodes to the same etag and sample.
C16_RoundTrip ==
    op \in {"ExtractETag", "ExtractECGData"} =>
        \A etag \in 0..7, sample \in SampleSet :
            args.word = BitOr(sample * 64, etag * 8) =>
                data = IF op = "ExtractETag" THEN etag ELSE sample

C16_Witness ==
    /\ op = "ExtractECGData"
    /\ args.word = BitOr(262143 * 64, 5 * 8)
    /\ data = 262143


\* C17: when the single transfer of MAX30003_ReadReg or MAX30003_WriteReg
\* fails, the call has made exactly that one transfer and returns the status
\* the transfer returned.
C17_FailureNotRetried ==
    /\ (op = "ReadReg" /\ args.r.st # HAL_OK) =>
          /\ Len(Spi(log)) = 1
          /\ Spi(log)[1].st = args.r.st
          /\ ret = args.r.st
    /\ (op = "WriteReg" /\ args.st # HAL_OK) =>
          /\ Len(Spi(log)) = 1
          /\ Spi(log)[1].st = args.st
          /\ ret = args.st

C17_Witness ==
    /\ op = "WriteReg" /\ args.st = HAL_TIMEOUT
    /\ Len(Spi(log)) = 1
    /\ ret = HAL_TIMEOUT

\* C18: no call of MAX30003_ReadFIFO, whatever count the caller passes,
\* issues more than 32 exchanges.
C18_NoMoreThan32Exchanges ==
    op = "ReadFIFO" => Len(Spi(log)) <= MAX30003_FIFO_LENGTH

\* the 24-bit value carried by a write frame
FrameValue(e) == e.tx[2] * 65536 + e.tx[3] * 256 + e.tx[4]

\* bit b of base | opts[1] | opts[2] | ...
OrBit(base, opts, b) ==
    IF Bit(base, b) = 1 \/ \E j \in 1..Len(opts) : Bit(opts[j], b) = 1
    THEN 1 ELSE 0

Reverse(q) == [j \in 1..Len(q) |-> q[Len(q) + 1 - j]]

\* C19: the value MAX30003_ConfigureRegisters writes to a register is its
\* default ORed bit by bit with every listed option; without options (as in
\* MAX30003_ConfigureRegistersDefault) or with zero options only it is the
\* default, ORing the options in twice changes nothing, and the order of the
\* options does not matter.
C19_AssemblyIsPureOr ==
    /\ (op = "ConfigureRegisters" /\ ret = HAL_OK) =>
          \A j \in 1..Len(ConfigDefaults) :
             /\ \A b \in 0..23 :
                  Bit(FrameValue(RegWrites(log)[j]), b)
                      = OrBit(ConfigDefaults[j].val, ConfigOptions[j], b)
             /\ OrAll(ConfigDefaults[j].val, ConfigOptions[j] \o ConfigOptions[j])
                    = FrameValue(RegWrites(log)[j])
             /\ OrAll(ConfigDefaults[j].val, Reverse(ConfigOptions[j]))
                    = FrameValue(RegWrites(log)[j])
             /\ OrAll(ConfigDefaults[j].val,
                      [k \in 1..Len(ConfigOptions[j]) |-> 0])
                    = ConfigDefaults[j].val
             /\ OrAll(ConfigDefaults[j].val, <<>>) = ConfigDefaults[j].val
    /\ (op = "ConfigureRegistersDefault" /\ ret = HAL_OK) =>
          \A j \in 1..Len(ConfigDefaults) :
             FrameValue(RegWrites(log)[j]) = ConfigDefaults[j].val

C19_Witness ==
    /\ op = "ConfigureRegisters" /\ ret = HAL_OK
    /\ Len(RegWrites(log)) = 10
    /\ RegWrites(log)[1].tx = <<4, 192, 0, 3>>


\* chip-select is deasserted while a transfer is in progress, or two frames
\* have been started under one chip-select assertion
CsConflict ==
    \/ \E t \in Threads : pc[t] = "in_xfer" /\ gpio[CsPin] = GPIO_PIN_SET
    \/ data.frames >= 2

\* C20: the driver takes no lock on the handle.  When the calls of the two
\* threads are serialized by their callers, chip-select is never deasserted
\* during a transfer and no two frames share one assertion; without that
\* serialization such a state is reachable (C20_Witness).
C20_SerializedNoCsConflict == args.serialized => ~CsConflict

C20_Witness ==
    /\ ~args.serialized
    /\ pc.main = "in_xfer" /\ pc.irq = "idle" /\ args.passes = 1
    /\ gpio[CsPin] = GPIO_PIN_SET


\* C21: in a pass of MAX30003_IRQHandler whose two status reads succeed, FIFO
\* read exchanges are issued iff bit 23 of status & en_int is set and a
\* FIFO_RST write iff bit 22 of status & en_int is set; when neither is set
\* the pass makes no exchange besides the two status reads.
C21_DispatchOnEnabledActive ==
    (op = "IRQHandler" /\ args.status_gis = HAL_OK) =>
        LET status == AnsweredWord(args.env, 1)
            en_int == AnsweredWord(args.env, 2)
        IN  /\ (FifoReads(log) # <<>>)
                  <=> (Bit(status, 23) = 1 /\ Bit(en_int, 23) = 1)
            /\ (RegWrites(log) # <<>>)
                  <=> (Bit(status, 22) = 1 /\ Bit(en_int, 22) = 1)
            /\ Len(Spi(log)) = 2 + Len(FifoReads(log)) + Len(RegWrites(log))

\* C22: when the STATUS read of MAX30003_GetInterruptStatus fails, the EN_INT
\* read is not issued; when either read fails, the call returns the status
\* of that read and leaves *enabled_active as it was.
C22_GetInterruptStatusFailsAtomically ==
    (op = "GetInterruptStatus" /\ ret # HAL_OK) =>
        /\ Spi(log)[1].st # HAL_OK => Len(Spi(log)) = 1
        /\ Spi(log)[Len(Spi(log))].st = ret
        /\ \A j \in 1..(Len(Spi(log)) - 1) : Spi(log)[j].st = HAL_OK
        /\ data = args.data_old
        /\ \A j \in 1..Len(log) : log[j].ev # "store" \/ log[j].dir # "enabled_active"

C22_Witness ==
    /\ op = "GetInterruptStatus" /\ ret = HAL_TIMEOUT
    /\ 1 \in args.env.fails
    /\ Len(Spi(log)) = 1
    /\ args.data_old = 11259375 /\ data = 11259375

\* command bytes of the writes to EN_INT, EN_INT2, MNGR_INT, MNGR_DYN,
\* CNFG_GEN, CNFG_CAL, CNFG_EMUX, CNFG_ECG, CNFG_RTOR1, CNFG_RTOR2
ConfigOrder == <<4, 6, 8, 10, 32, 36, 40, 42, 58, 60>>

\* C23: both configuration routines write the ten registers in the order
\* EN_INT .. CNFG_RTOR2, one write each; the first failed write is the last
\* write of the call and its status is returned; the writes before it have
\* been made.
C23_ConfigureOrder ==
    op \in {"ConfigureRegistersDefault", "ConfigureRegisters"} =>
        LET w == RegWrites(log)
        IN  /\ Len(w) = Len(Spi(log))
            /\ Len(w) \in 1..10
            /\ \A j \in 1..Len(w) : w[j].tx[1] = ConfigOrder[j]
            /\ \A j \in 1..(Len(w) - 1) : w[j].st = HAL_OK
            /\ ret = w[Len(w)].st
            /\ ret = HAL_OK => Len(w) = 10
            /\ ret # HAL_OK => args.env.fails = {Len(w)}

C23_Witness ==
    /\ op = "ConfigureRegisters" /\ ret = HAL_BUSY
    /\ Len(RegWrites(log)) = 4
    /\ RegWrites(log)[4].tx[1] = 10


\* C24: MAX30003_HandleETag takes neither the Valid nor the Valid+EOF branch
\* for the reserved tags 4 and 5, and takes the Overflow branch for tag 7.
C24_ReservedNeverValid ==
    op = "HandleETag" =>
        /\ args.etag \in {4, 5} =>
               args.branch \notin {"case VALID", "case VALID_EOF"}
        /\ args.etag = 7 => args.branch = "case OVERFLOW"

C24_Witness ==
    /\ op = "HandleETag" /\ args.etag = 5
    /\ args.branch = "default"

\* C25: after a MAX30003_ReadFIFO(count) in which every exchange succeeded,
\* slot i holds r1*65536 + r2*256 + r3 of the answer to the i-th exchange
\* (below 2^24, in the order of the exchanges), so that the two extractors
\* applied to slot i give bits [5:3] and [23:6] of the i-th device word.
C25_SlotsHoldDeviceWords ==
    (op = "ReadFIFO" /\ ret = HAL_OK /\ args.env.fails = {}) =>
        /\ Len(fifo_data) = args.count
        /\ \A i \in 1..args.count :
             /\ fifo_data[i] = RxOf(args.env, i)[2] * 65536
                               + RxOf(args.env, i)[3] * 256
                               + RxOf(args.env, i)[4]
             /\ fifo_data[i] < 16777216
             /\ MAX30003_ExtractETag(fifo_data[i])
                    = (DevWord(args.env.pat, i) \div 8) % 8
             /\ MAX30003_ExtractECGData(fifo_data[i])
                    = (DevWord(args.env.pat, i) \div 64) % 262144

C25_Witness ==
    /\ op = "ReadFIFO" /\ ret = HAL_OK /\ args.count = 4 /\ args.env.pat = 2
    /\ fifo_data = <<16777215 - 66051, 16777215 - 132102,
                     16777215 - 198153, 16777215 - 264204>>

\* C26: every word MAX30003_ReadFIFO stores goes into the caller's buffer at
\* an index below count; the drain of MAX30003_IRQHandler makes no store
\* through a null buffer pointer.
C26_StoresIntoCallerBuffer ==
    /\ op = "ReadFIFO" =>
          \A j \in 1..Len(log) :
             log[j].ev = "store" =>
                 log[j].dir = "fifo_data" /\ log[j].idx < args.count
    /\ op = "IRQHandler" =>
          \A j \in 1..Len(log) : log[j].ev = "store" => log[j].dir # NULL


\* the content of the field f = <<shift, width>> in the register value v
FieldOf(v, f) == (v \div (2^f[1])) % (2^f[2])

\* C27: in the value MAX30003_ConfigureRegisters writes to each of the ten
\* registers, the field of every option listed for the register holds the
\* value of that option; for CNFG_ECG with MAX30003_CNFG_ECG_RATE_512 the
\* bits [23:22] written are 0.
C27_OptionsReflected ==
    (op = "ConfigureRegisters" /\ ret = HAL_OK) =>
        /\ \A j \in 1..Len(ConfigOptions) :
             \A k \in 1..Len(ConfigOptions[j]) :
                FieldOf(FrameValue(RegWrites(log)[j]), ConfigFields[j][k])
                    = FieldOf(ConfigOptions[j][k], ConfigFields[j][k])
        /\ FieldOf(FrameValue(RegWrites(log)[8]), <<22, 2>>) = 0


\* C28: in a pass of MAX30003_IRQHandler where EINT and EOVF are both enabled
\* and active, every exchange of the FIFO drain comes before the FIFO_RST
\* write, and the FIFO_RST write is the last exchange of the pass.
C28_DrainBeforeReset ==
    (/\ op = "IRQHandler" /\ args.status_gis = HAL_OK
     /\ Bit(data, 23) = 1 /\ Bit(data, 22) = 1) =>
        \A j \in 1..Len(Spi(log)) :
            IsFifoRst(Spi(log)[j]) =>
                /\ j = Len(Spi(log))
                /\ \A k \in 1..Len(Spi(log)) : IsFifoRead(Spi(log)[k]) => k < j

C28_Witness ==
    /\ op = "IRQHandler" /\ args.status_gis = HAL_OK
    /\ Bit(data, 23) = 1 /\ Bit(data, 22) = 1
    /\ Len(FifoReads(log)) = 32
    /\ Len(Spi(log)) = 35
    /\ IsFifoRst(Spi(log)[35])

\* C29: for every uint8_t reg, the command byte of MAX30003_ReadReg is
\* 2 * (reg mod 128) + 1 and that of MAX30003_WriteReg is 2 * (reg mod 128):
\* bit 0 tells read from write, and reg >= 0x80 gives the frame of
\* reg - 0x80.
C29_CommandByte ==
    /\ op = "ReadReg" =>
          /\ Spi(log)[1].tx[1] \in 0..255
          /\ Spi(log)[1].tx[1] % 2 = 1
          /\ Spi(log)[1].tx[1] \div 2 = args.reg % 128
          /\ Spi(log)[1].dir = "txrx"
          /\ args.reg >= 128 =>
                 Spi(log)[1].tx = <<2 * (args.reg - 128) + 1, 0, 0, 0>>
    /\ op = "WriteReg" =>
          /\ Spi(log)[1].tx[1] \in 0..255
          /\ Spi(log)[1].tx[1] % 2 = 0
          /\ Spi(log)[1].tx[1] \div 2 = args.reg % 128
          /\ Spi(log)[1].dir = "tx"
          /\ args.reg >= 128 => Spi(log)[1].tx[1] = 2 * (args.reg - 128)

C29_Witness ==
    /\ op = "ReadReg" /\ args.reg = 200
    /\ Spi(log)[1].tx = <<145, 0, 0, 0>>

\* C30: MAX30003_ReadFIFO with count = 0 makes no exchange and no
\* chip-select write, stores nothing and returns HAL_OK.
C30_ZeroCountDoesNothing ==
    (op = "ReadFIFO" /\ args.count = 0) =>
        /\ log = <<>>
        /\ ret = HAL_OK
        /\ fifo_data = <<>>
        /\ gpio[<<hmax.cs_port, hmax.cs_pin>>] = GPIO_PIN_SET

C30_Witness ==
    /\ op = "ReadFIFO" /\ args.count = 0 /\ pc = "returned"
    /\ Len(log) = 0 /\ ret = HAL_OK


\* C31: every driver call ends after a bounded number of exchanges, whatever
\* exchanges fail: MAX30003_ReadFIFO(count) after at most count, for every
\* count up to 255 (the uint8_t index does not wrap), and exactly count when
\* none fails; MAX30003_GetInterruptStatus after at most 2,
\* MAX30003_IRQHandler after at most 35, each configuration routine after at
\* most 10.
C31_BoundedExchanges ==
    /\ op = "ReadFIFO" =>
          /\ Len(Spi(log)) <= args.count
          /\ Len(Spi(log)) <= 255
          /\ ret = HAL_OK => Len(Spi(log)) = args.count
    /\ op = "GetInterruptStatus" => Len(Spi(log)) <= 2
    /\ op = "IRQHandler" => Len(Spi(log)) <= MAX30003_FIFO_LENGTH + 3
    /\ op \in {"ConfigureRegistersDefault", "ConfigureRegisters"} =>
          Len(Spi(log)) <= 10
    /\ op \in TransferOps => pc \in {"returned", "fault"}

C31_Witness ==
    /\ op = "ReadFIFO" /\ args.count = 255 /\ ret = HAL_OK
    /\ pc = "returned"
    /\ Len(Spi(log)) = 255

\* C32: when the exchange of MAX30003_ReadReg fails, *data is what it was
\* before the call and the call has made no store.
C32_FailedReadLeavesOutput ==
    (op = "ReadReg" /\ ret # HAL_OK) =>
        /\ data = args.data_old
        /\ \A j \in 1..Len(log) : log[j].ev # "store"

C32_Witness ==
    /\ op = "ReadReg" /\ ret = HAL_ERROR
    /\ args.r.n = 3 /\ args.r.rx = <<255, 255, 255, 255>>
    /\ args.data_old = 11259375 /\ data = 11259375

\* C33: MAX30003_Init with a null hspi returns HAL_ERROR, leaves the handle
\* as it was and drives no pin; with a non-null hspi it binds hspi, cs_port
\* and cs_pin, drives the chip-select pin high, makes no transfer and returns
\* HAL_OK.
C33_InitBinding ==
    op = "Init" =>
        /\ args.hspi = NULL =>
              /\ ret = HAL_ERROR
              /\ hmax = args.hmax_old
              /\ log = <<>>
              /\ \A p \in Pins : gpio[p] = GPIO_PIN_RESET
        /\ args.hspi # NULL =>
              /\ ret = HAL_OK
              /\ hmax = [hspi |-> args.hspi, cs_port |-> args.cs_port,
                         cs_pin |-> args.cs_pin]
              /\ log = <<GpioEv(args.cs_port, args.cs_pin, GPIO_PIN_SET)>>
              /\ gpio[<<args.cs_port, args.cs_pin>>] = GPIO_PIN_SET
              /\ \A p \in Pins \ {<<args.cs_port, args.cs_pin>>} :
                     gpio[p] = GPIO_PIN_RESET

C33_Witness ==
    /\ op = "Init" /\ args.hspi = NULL /\ args.cs_port = "GPIOB"
    /\ ret = HAL_ERROR
    /\ hmax.hspi = NULL /\ hmax.cs_port = NULL
    /\ gpio[<<"GPIOB", 64>>] = GPIO_PIN_RESET

=============================================================================
